---- MODULE Spec2Model ----
(***************************************************************************)
(* A model of gobmp's Kafka publisher (pkg/kafka/kafka-publisher.go), the  *)
(* BGP-LS link descriptor TLV walker (pkg/base) and the EVPN route type 2  *)
(* decoder (pkg/evpn/mac-ip-advertisement.go).                             *)
(*                                                                         *)
(* A Go slice is modelled as its backing array from the slice's first byte *)
(* (a sequence of cap(b) bytes) together with len(b): a slice expression   *)
(* b[lo:hi] on a slice is checked against cap(b), an index b[i] against    *)
(* len(b).  A Go string is a sequence of one-character strings.            *)
(***************************************************************************)
EXTENDS Integers, Sequences, FiniteSets, TLC

VARIABLES
    \* UnmarshalLinkDescriptorTLV
    tlvArr, tlvLen, tlvRes,
    \* UnmarshalEVPNMACIPAdvertisement
    evArr, evLen, evRes,
    \* NewKafkaPublisher / validator / ensureTopic
    addr, dns, npc, nerr, tIdx, epc, answer, tickReady, toutReady, elapsed,
    \* the running publisher
    broker, producer, input, successes, errors, stopCh, gpc, stopPc,
    stops, crash, log

tlvVars == <<tlvArr, tlvLen, tlvRes>>
evVars == <<evArr, evLen, evRes>>
startVars == <<addr, dns, npc, nerr, tIdx, epc, answer, tickReady, toutReady, elapsed>>
pubVars == <<broker, producer, input, successes, errors, stopCh, gpc, stopPc,
             stops, crash, log>>
vars == <<tlvVars, evVars, startVars, pubVars>>

\* ------------------------------------------------------------------------
\* Bounds
\* ------------------------------------------------------------------------
MaxCap == 6
MaxLabels == 2
MaxElapsed == 11
MaxCalls == 2
MaxStops == 2
InputCap == 2
NotifyCap == 1

\* ------------------------------------------------------------------------
\* Helpers
\* ------------------------------------------------------------------------

\* binary.BigEndian.Uint16 of the two bytes at 0-based offsets p, p+1
Uint16At(arr, p) == arr[p + 1] * 256 + arr[p + 2]

\* the bytes at 0-based offsets lo .. hi-1
Slice(arr, lo, hi) == SubSeq(arr, lo + 1, hi)

RECURSIVE SumSeq(_)
SumSeq(s) == IF s = <<>> THEN 0 ELSE Head(s) + SumSeq(Tail(s))

\* ------------------------------------------------------------------------
\* pkg/base: UnmarshalLinkDescriptorTLV
\* ------------------------------------------------------------------------
TLVBytes == {0, 1, 4, 100}

\* The loop of UnmarshalLinkDescriptorTLV at position p with ltlvs = acc.
\* It has no bounds check of its own: the slice expressions panic past
\* cap(b) and read the backing array between len(b) and cap(b).
RECURSIVE WalkLinkTLV(_, _, _, _)
WalkLinkTLV(arr, n, p, acc) ==
    IF ~(p < n) THEN [kind |-> "ok", tlvs |-> acc]
    ELSE IF p + 2 > Len(arr) THEN [kind |-> "panic", tlvs |-> <<>>]
    ELSE IF p + 4 > Len(arr) THEN [kind |-> "panic", tlvs |-> <<>>]
    ELSE LET l == Uint16At(arr, p + 2) IN
         IF p + 4 + l > Len(arr) THEN [kind |-> "panic", tlvs |-> <<>>]
         ELSE WalkLinkTLV(arr, n, p + 4 + l,
                  Append(acc, [Type |-> Uint16At(arr, p), Length |-> l,
                               Value |-> Slice(arr, p + 4, p + 4 + l)]))

UnmarshalLinkDescriptorTLV(arr, n) == WalkLinkTLV(arr, n, 0, <<>>)

TLVIdle ==
    /\ tlvArr = <<>> /\ tlvLen = 0 /\ tlvRes = [kind |-> "none", tlvs |-> <<>>]

TLVInit ==
    /\ tlvArr \in UNION {[1..c -> TLVBytes] : c \in 0..MaxCap}
    /\ tlvLen \in 0..Len(tlvArr)
    /\ tlvRes = [kind |-> "none", tlvs |-> <<>>]

TLVUnmarshal ==
    /\ tlvRes.kind = "none"
    /\ tlvRes' = UnmarshalLinkDescriptorTLV(tlvArr, tlvLen)
    /\ UNCHANGED <<tlvArr, tlvLen>>
    /\ UNCHANGED <<evVars, startVars, pubVars>>

\* b as the caller sees it: the first len(b) bytes
TLVInput == Slice(tlvArr, 0, tlvLen)

\* A TLV header is expected at offset p of b and fewer than 4 bytes remain, or
\* a declared length exceeds what remains after its header.
RECURSIVE TLVTruncated(_, _)
TLVTruncated(b, p) ==
    /\ p < Len(b)
    /\ \/ Len(b) - p < 4
       \/ LET l == Uint16At(b, p + 2) IN
            \/ l > Len(b) - p - 4
            \/ TLVTruncated(b, p + 4 + l)

\* offset in b of the i-th returned TLV
TLVOffset(tlvs, i) == SumSeq([j \in 1..(i - 1) |-> 4 + tlvs[j].Length])

\* C6: a truncated TLV header, or a declared length beyond the remaining
\* bytes, makes UnmarshalLinkDescriptorTLV return an error (it does not
\* crash and does not succeed).
C6_TruncatedTLVIsError ==
    (tlvRes.kind # "none" /\ TLVTruncated(TLVInput, 0)) => tlvRes.kind = "error"

\* C7: TLV exhaustion. When UnmarshalLinkDescriptorTLV succeeds on b the
\* returned TLVs are the TLVs of b in input order, each with its declared
\* Length and the Length bytes after its header as Value, and the sum of
\* (4 + Length) is len(b); the empty input yields the empty list.
C7_TLVExhaustion ==
    tlvRes.kind = "ok" =>
        LET tlvs == tlvRes.tlvs
            b == TLVInput
        IN /\ TLVOffset(tlvs, Len(tlvs) + 1) = Len(b)
           /\ \A i \in 1..Len(tlvs) :
                LET o == TLVOffset(tlvs, i) IN
                  /\ o + 4 + tlvs[i].Length <= Len(b)
                  /\ tlvs[i].Type = Uint16At(b, o)
                  /\ tlvs[i].Length = Uint16At(b, o + 2)
                  /\ tlvs[i].Value = Slice(b, o + 4, o + 4 + tlvs[i].Length)
           /\ (Len(b) = 0 => tlvs = <<>>)

\* ------------------------------------------------------------------------
\* pkg/evpn: UnmarshalEVPNMACIPAdvertisement
\* ------------------------------------------------------------------------
Panic == [kind |-> "panic"]
Error == [kind |-> "error"]

\* Go's builtin copy(dst, src): min(len(dst), len(src)) elements are copied
Copy(dst, src) ==
    [i \in 1..Len(dst) |-> IF i <= Len(src) THEN src[i] ELSE dst[i]]

\* make([]byte, l)
MakeBytes(l) == [i \in 1..l |-> 0]

\* base.MakeRD: 8 bytes, the first two are the type (0, 1 or 2)
MakeRD(b) ==
    IF Len(b) # 8 \/ Uint16At(b, 0) > 2 THEN [err |-> TRUE]
    ELSE [err |-> FALSE, Type |-> Uint16At(b, 0), Value |-> Slice(b, 2, 8)]

\* evpn.MakeESI: 10 raw bytes
MakeESI(b) ==
    IF Len(b) # 10 THEN [err |-> TRUE] ELSE [err |-> FALSE, Value |-> b]

\* evpn.MakeMACAddress: 6 bytes
MakeMACAddress(b) ==
    IF Len(b) # 6 THEN [err |-> TRUE] ELSE [err |-> FALSE, Value |-> b]

\* base.MakeLabel: the first 3 bytes are a 20 bit label, 3 bits exp and the
\* bottom of stack bit
MakeLabel(b) ==
    IF Len(b) < 3 THEN [err |-> TRUE]
    ELSE LET v == b[1] * 65536 + b[2] * 256 + b[3] IN
         [err |-> FALSE, Value |-> v \div 16, Exp |-> (v \div 2) % 8, BoS |-> v % 2]

\* the label loop: for i := 0; p < len(b); i++ { MakeLabel(b[p:]) ... p += 3 }
RECURSIVE EVLabels(_, _, _, _)
EVLabels(arr, n, p, t) ==
    IF ~(p < n) THEN t
    ELSE LET l == MakeLabel(Slice(arr, p, n)) IN
         IF l.err THEN Error
         ELSE EVLabels(arr, n, p + 3,
                  [t EXCEPT !.Label = Append(@, [Value |-> l.Value, Exp |-> l.Exp,
                                                 BoS |-> l.BoS])])

\* t.IPAddrLength = b[p] and the IP address that follows
EVIPAddr(arr, n, p, t) ==
    IF ~(p < n) THEN Panic
    ELSE LET ipl == arr[p + 1]
             l == ipl \div 8
         IN IF ipl # 0
            THEN IF p + 1 + l > Len(arr) THEN Panic
                 ELSE EVLabels(arr, n, p + 1 + l,
                          [t EXCEPT !.IPAddrLength = ipl,
                                    !.IPAddr = Copy(MakeBytes(l),
                                                    Slice(arr, p + 1, p + 1 + l))])
            ELSE EVLabels(arr, n, p + 1, [t EXCEPT !.IPAddrLength = ipl])

\* t.MACAddrLength = b[p] and the MAC address that follows
EVMACAddr(arr, n, p, t) ==
    IF ~(p < n) THEN Panic
    ELSE LET ml == arr[p + 1]
             l == ml \div 8
         IN IF l # 0
            THEN IF p + 1 + l > Len(arr) THEN Panic
                 ELSE LET m == MakeMACAddress(Slice(arr, p + 1, p + 1 + l)) IN
                      IF m.err THEN Error
                      ELSE EVIPAddr(arr, n, p + 1 + l,
                               [t EXCEPT !.MACAddrLength = ml, !.MACAddr = m.Value])
            ELSE EVIPAddr(arr, n, p + 1, [t EXCEPT !.MACAddrLength = ml])

\* The zero value of MACIPAdvertisement: nil pointers and nil slices are <<>>
EVZero ==
    [kind |-> "ok", RD |-> <<>>, ESI |-> <<>>, EthTag |-> <<>>, MACAddrLength |-> 0,
     MACAddr |-> <<>>, IPAddrLength |-> 0, IPAddr |-> <<>>, Label |-> <<>>]

UnmarshalEVPNMACIPAdvertisement(arr, n) ==
    IF 8 > Len(arr) THEN Panic
    ELSE LET rd == MakeRD(Slice(arr, 0, 8)) IN
    IF rd.err THEN Error
    ELSE IF 18 > Len(arr) THEN Panic
    ELSE LET esi == MakeESI(Slice(arr, 8, 18)) IN
    IF esi.err THEN Error
    ELSE IF 22 > Len(arr) THEN Panic
    ELSE EVMACAddr(arr, n, 22,
             [EVZero EXCEPT !.RD = [Type |-> rd.Type, Value |-> rd.Value],
                            !.ESI = esi.Value,
                            \* copy into the nil slice t.EthTag
                            !.EthTag = Copy(EVZero.EthTag, Slice(arr, 18, 22))])

\* Route type 2 bodies as a router sends them
EVRD(rdType) == <<0, rdType, 0, 100, 0, 0, 0, 1>>
EVESI == <<0, 0, 0, 0, 0, 0, 0, 0, 0, 0>>
EVTag(tag) == <<0, 0, 0, tag>>
EVMAC(on) == IF on THEN <<48, 170, 187, 204, 221, 238, 255>> ELSE <<0>>
EVIP(on) == IF on THEN <<32, 10, 0, 0, 5>> ELSE <<0>>
RECURSIVE EVLabelBytes(_)
EVLabelBytes(k) == IF k = 0 THEN <<>> ELSE <<0, k, 161>> \o EVLabelBytes(k - 1)

EVBody(rdType, tag, mac, ip, k) ==
    EVRD(rdType) \o EVESI \o EVTag(tag) \o EVMAC(mac) \o EVIP(ip) \o EVLabelBytes(k)

EVBodies ==
    {EVBody(rdType, tag, mac, ip, k) :
        rdType \in 0..3, tag \in {0, 1}, mac \in BOOLEAN, ip \in BOOLEAN,
        k \in 0..MaxLabels}

EVIdle == evArr = <<>> /\ evLen = 0 /\ evRes = [kind |-> "none"]

\* b is a body or a prefix of one, sliced out of the enclosing message with
\* either no spare capacity or the rest of the body behind it
EVInit ==
    \E f \in EVBodies :
      /\ evLen \in 0..Len(f)
      /\ evArr \in {Slice(f, 0, evLen), f}
      /\ evRes = [kind |-> "none"]

EVUnmarshal ==
    /\ evRes.kind = "none"
    /\ evRes' = UnmarshalEVPNMACIPAdvertisement(evArr, evLen)
    /\ UNCHANGED <<evArr, evLen>>
    /\ UNCHANGED <<tlvVars, startVars, pubVars>>

\* b as the caller sees it
EVInput == Slice(evArr, 0, evLen)

\* b is shorter than its fields require: shorter than RD + ESI + Ethernet Tag
\* + MAC length byte, than the announced MAC address, the IP length byte, the
\* announced IP address, or a whole 3 byte label
EVShort(b) ==
    \/ Len(b) < 8 + 10 + 4 + 1
    \/ LET ml == b[23] \div 8 IN
         \/ Len(b) < 23 + ml + 1
         \/ LET il == b[23 + ml + 1] \div 8 IN
              \/ Len(b) < 24 + ml + il
              \/ (Len(b) - (24 + ml + il)) % 3 # 0

\* a body a router sends: nothing is short, the RD type is 0, 1 or 2 and the
\* MAC address is absent or 48 bits long
EVWellFormed(b) ==
    /\ ~EVShort(b)
    /\ Uint16At(b, 0) <= 2
    /\ b[23] \in {0, 48}

\* the label in the 3 bytes at offset o of b
EVLabelAt(b, o) ==
    LET v == b[o + 1] * 65536 + b[o + 2] * 256 + b[o + 3] IN
    [Value |-> v \div 16, Exp |-> (v \div 2) % 8, BoS |-> v % 2]

\* C8: UnmarshalEVPNMACIPAdvertisement returns an error (and does not crash)
\* for every body that is shorter than its fields require.
C8_ShortBodyIsError ==
    (evRes.kind # "none" /\ EVShort(EVInput)) => evRes.kind = "error"

\* C9: for a well-formed route type 2 body b the returned object mirrors b in
\* wire order and accounts for every byte: RD from bytes 0..7, ESI from bytes
\* 8..17, EthTag the 4 bytes 18..21, MACAddr of MACAddrLength/8 bytes, IPAddr
\* of IPAddrLength/8 bytes (absent when the IP length is 0) and one label per
\* following 3 byte group, in order.
C9_FieldsMirrorBody ==
    (evRes.kind # "none" /\ EVWellFormed(EVInput)) =>
        LET b == EVInput
            ml == b[23] \div 8
            il == b[24 + ml] \div 8
            k == (Len(b) - (24 + ml + il)) \div 3
        IN /\ evRes.kind = "ok"
           /\ evRes.RD = [Type |-> Uint16At(b, 0), Value |-> Slice(b, 2, 8)]
           /\ evRes.ESI = Slice(b, 8, 18)
           /\ evRes.EthTag = Slice(b, 18, 22)
           /\ evRes.MACAddrLength = b[23]
           /\ evRes.MACAddr = Slice(b, 23, 23 + ml)
           /\ evRes.IPAddrLength = b[24 + ml]
           /\ evRes.IPAddr = Slice(b, 24 + ml, 24 + ml + il)
           /\ evRes.Label = [i \in 1..k |-> EVLabelAt(b, 24 + ml + il + 3 * (i - 1))]
           /\ 8 + 10 + Len(evRes.EthTag) + 1 + Len(evRes.MACAddr) + 1
                + Len(evRes.IPAddr) + 3 * Len(evRes.Label) = Len(b)

\* ------------------------------------------------------------------------
\* pkg/kafka: validator
\* ------------------------------------------------------------------------
Digits == <<"0", "1", "2", "3", "4", "5", "6", "7", "8", "9">>
DigitSet == {Digits[i] : i \in 1..10}
DigitVal(c) == (CHOOSE i \in 1..10 : Digits[i] = c) - 1

\* 0-based index of the first / last c in s, -1 when there is none
IndexByte(s, c) ==
    IF \E i \in 1..Len(s) : s[i] = c
    THEN (CHOOSE i \in 1..Len(s) : s[i] = c /\ \A k \in 1..(i - 1) : s[k] # c) - 1
    ELSE -1
LastIndex(s, c) ==
    IF \E i \in 1..Len(s) : s[i] = c
    THEN (CHOOSE i \in 1..Len(s) : s[i] = c /\ \A k \in (i + 1)..Len(s) : s[k] # c) - 1
    ELSE -1

\* net.SplitHostPort; on an error host and port are both "" (the validator
\* drops the error)
SplitErr == [host |-> <<>>, port |-> <<>>]
SplitHostPort(hp) ==
    LET i == LastIndex(hp, ":") IN
    IF i < 0 THEN SplitErr
    ELSE IF hp[1] = "["
    THEN LET end == IndexByte(hp, "]") IN
         IF end < 0 \/ end + 1 = Len(hp) \/ end + 1 # i THEN SplitErr
         ELSE IF IndexByte(Slice(hp, 1, Len(hp)), "[") >= 0 THEN SplitErr
         ELSE IF IndexByte(Slice(hp, end + 1, Len(hp)), "]") >= 0 THEN SplitErr
         ELSE [host |-> Slice(hp, 1, end), port |-> Slice(hp, i + 1, Len(hp))]
    ELSE IF IndexByte(Slice(hp, 0, i), ":") >= 0 THEN SplitErr
         ELSE IF IndexByte(hp, "[") >= 0 \/ IndexByte(hp, "]") >= 0 THEN SplitErr
         ELSE [host |-> Slice(hp, 0, i), port |-> Slice(hp, i + 1, Len(hp))]

\* strconv.Atoi: an optional sign and at least one decimal digit
RECURSIVE DecimalVal(_)
DecimalVal(s) ==
    IF s = <<>> THEN 0 ELSE DecimalVal(SubSeq(s, 1, Len(s) - 1)) * 10 + DigitVal(s[Len(s)])
Atoi(s) ==
    LET signed == s # <<>> /\ s[1] \in {"+", "-"}
        d == IF signed THEN Tail(s) ELSE s
    IN IF d = <<>> \/ \E k \in 1..Len(d) : d[k] \notin DigitSet
       THEN [err |-> TRUE, n |-> 0]
       ELSE [err |-> FALSE,
             n |-> IF signed /\ s[1] = "-" THEN 0 - DecimalVal(d) ELSE DecimalVal(d)]

\* net.ParseIP: the literal addresses among the hosts of Addrs
LiteralIPs == {<<":", ":", "1">>, <<"1", "2", "7", ".", "0", ".", "0", ".", "1">>}
ParseIP(host) == host \in LiteralIPs

\* net.LookupIP: a literal address is returned as it is, a name gets the
\* resolver's answer d: "ips" (addresses, no error), "nil" (nil, no error)
\* or "err"
LookupIP(host, d) == IF ParseIP(host) THEN "ips" ELSE d

MaxUint16 == 65535

\* validator(addr): "" is the nil error
validator(a, d) ==
    LET sp == SplitHostPort(a) IN
    IF sp.host = <<>> \/ sp.port = <<>> THEN "host or port cannot be ''"
    ELSE IF LookupIP(sp.host, d) # "ips" /\ ~ParseIP(sp.host)
         THEN "fail to parse host part of address"
    ELSE LET np == Atoi(sp.port) IN
         IF np.err THEN "fail to parse port"
         ELSE IF np.n = 0 \/ np.n > MaxUint16 THEN "the value of port is invalid"
         ELSE ""

ValidatorErrors ==
    {"host or port cannot be ''", "fail to parse host part of address",
     "fail to parse port", "the value of port is invalid"}

Localhost == <<"l", "o", "c", "a", "l", "h", "o", "s", "t">>
Loopback4 == <<"1", "2", "7", ".", "0", ".", "0", ".", "1">>
BracketV6 == <<"[", ":", ":", "1", "]">>
Ports ==
    {<<>>, <<"0">>, <<"1">>, <<"9", "0", "9", "2">>, <<"6", "5", "5", "3", "5">>,
     <<"6", "5", "5", "3", "6">>, <<"-", "1">>, <<"+", "8", "0">>, <<"-">>,
     <<"h", "t", "t", "p">>, <<"8", "0", "a">>}
Addrs ==
    {h \o <<":">> \o q : h \in {<<>>, Localhost, Loopback4, BracketV6}, q \in Ports}
      \cup {Localhost, Loopback4, BracketV6,
            <<":", ":", "1", ":", "9", "0", "9", "2">>,
            <<"[", ":", ":", "1", ":", "9", "0", "9", "2">>}

\* ------------------------------------------------------------------------
\* pkg/kafka: NewKafkaPublisher and ensureTopic
\* ------------------------------------------------------------------------
topicNames ==
    <<"gobmp.parsed.peer", "gobmp.parsed.unicast_prefix", "gobmp.parsed.ls_node",
      "gobmp.parsed.ls_link", "gobmp.parsed.l3vpn", "gobmp.parsed.ls_prefix",
      "gobmp.parsed.ls_srv6_sid", "gobmp.parsed.evpn">>

\* topicCreateTimeout (1 s) in ticks of ensureTopic's 100 ms ticker
TimeoutTicks == 10

\* what br.CreateTopics can answer for the topic
Answers ==
    {"RequestFailed", "NoError", "TopicAlreadyExists", "RequestTimedOut",
     "InvalidTopic", "NoEntry"}

StartIdle ==
    /\ addr = <<>> /\ dns = "none" /\ npc = "idle" /\ nerr = "" /\ tIdx = 0
    /\ epc = "idle" /\ answer = "none" /\ tickReady = FALSE /\ toutReady = FALSE
    /\ elapsed = 0

PubIdle ==
    /\ broker = "none" /\ producer = "none" /\ input = <<>>
    /\ successes = 0 /\ errors = 0 /\ stopCh = "none" /\ gpc = "none"
    /\ stopPc = "none" /\ stops = 0 /\ crash = "" /\ log = <<>>

\* NewKafkaPublisher(kafkaSrv) is called
StartInit ==
    /\ addr \in Addrs /\ dns \in {"ips", "nil", "err"}
    /\ npc = "validate" /\ nerr = "" /\ tIdx = 0 /\ epc = "idle"
    /\ answer = "none" /\ tickReady = FALSE /\ toutReady = FALSE /\ elapsed = 0

Fail(e) == npc' = "failed" /\ nerr' = e

\* if err := validator(kafkaSrv); err != nil { return nil, err }
NewValidate ==
    /\ npc = "validate"
    /\ LET e == validator(addr, dns) IN
         IF e # "" THEN Fail(e) ELSE npc' = "open" /\ nerr' = ""
    /\ UNCHANGED <<addr, dns, tIdx, epc, answer, tickReady, toutReady, elapsed>>
    /\ UNCHANGED pubVars
    /\ UNCHANGED <<tlvVars, evVars>>

\* br.Open(config): only an error other than ErrAlreadyConnected is returned
NewOpenBroker(r) ==
    /\ npc = "open"
    /\ IF r = "error"
       THEN Fail("broker open") /\ UNCHANGED pubVars
       ELSE /\ npc' = "wait" /\ nerr' = ""
            /\ broker' = "open"
            /\ UNCHANGED <<producer, input, successes, errors, stopCh, gpc,
                           stopPc, stops, crash, log>>
    /\ UNCHANGED <<addr, dns, tIdx, epc, answer, tickReady, toutReady, elapsed>>
    /\ UNCHANGED <<tlvVars, evVars>>

\* waitForBrokerConnection(br, brockerConnectTimeout), then the first
\* ensureTopic starts its ticker and its timer
NewWaitBroker(r) ==
    /\ npc = "wait"
    /\ IF r = "connected"
       THEN /\ npc' = "topics" /\ nerr' = "" /\ tIdx' = 1 /\ epc' = "create"
       ELSE /\ Fail(r) /\ UNCHANGED <<tIdx, epc>>
    /\ UNCHANGED <<addr, dns, answer, tickReady, toutReady, elapsed>>
    /\ UNCHANGED pubVars
    /\ UNCHANGED <<tlvVars, evVars>>

\* ensureTopic returned nil: the next topic's ensureTopic starts with a new
\* ticker and timer, or the loop over topicNames is over
TopicDone ==
    /\ nerr' = ""
    /\ tIdx' = tIdx + 1
    /\ tickReady' = FALSE /\ toutReady' = FALSE /\ elapsed' = 0
    /\ IF tIdx = Len(topicNames) THEN npc' = "producer" /\ epc' = "idle"
       ELSE npc' = "topics" /\ epc' = "create"

\* t, err := br.CreateTopics(topic) and the checks of its answer
EnsureCreate(a) ==
    /\ npc = "topics" /\ epc = "create"
    /\ answer' = a
    /\ IF a = "RequestFailed"
       THEN Fail("create request failed") /\ UNCHANGED <<tIdx, epc, tickReady, toutReady, elapsed>>
       ELSE IF a \in {"TopicAlreadyExists", "NoError"} THEN TopicDone
       ELSE IF a \notin {"RequestTimedOut", "NoEntry"}
       THEN Fail(a) /\ UNCHANGED <<tIdx, epc, tickReady, toutReady, elapsed>>
       ELSE /\ epc' = "select"
            /\ UNCHANGED <<npc, nerr, tIdx, tickReady, toutReady, elapsed>>
    /\ UNCHANGED <<addr, dns>>
    /\ UNCHANGED pubVars
    /\ UNCHANGED <<tlvVars, evVars>>

\* select: case <-ticker.C: continue
EnsureSelectTick ==
    /\ npc = "topics" /\ epc = "select" /\ tickReady
    /\ tickReady' = FALSE /\ epc' = "create"
    /\ UNCHANGED <<addr, dns, npc, nerr, tIdx, answer, toutReady, elapsed>>
    /\ UNCHANGED pubVars
    /\ UNCHANGED <<tlvVars, evVars>>

\* select: case <-tout.C: return fmt.Errorf("timeout waiting for topic %s")
EnsureSelectTimeout ==
    /\ npc = "topics" /\ epc = "select" /\ toutReady
    /\ Fail("timeout waiting for topic")
    /\ UNCHANGED <<addr, dns, tIdx, epc, answer, tickReady, toutReady, elapsed>>
    /\ UNCHANGED pubVars
    /\ UNCHANGED <<tlvVars, evVars>>

\* 100 ms pass while CreateTopics is in flight or the select waits with
\* neither channel ready: the ticker puts a tick into its one-slot channel.
\* The timer was started after the ticker, so it fires after the tick that
\* falls on the timeout and before the next one.
Tick ==
    /\ npc = "topics"
    /\ epc = "create" \/ (epc = "select" /\ ~tickReady /\ ~toutReady)
    /\ elapsed < MaxElapsed
    /\ elapsed >= TimeoutTicks => toutReady
    /\ elapsed' = elapsed + 1
    /\ tickReady' = TRUE
    /\ UNCHANGED <<addr, dns, npc, nerr, tIdx, epc, answer, toutReady>>
    /\ UNCHANGED pubVars
    /\ UNCHANGED <<tlvVars, evVars>>

\* topicCreateTimeout has passed: the timer of time.NewTimer(timeout) fires
TimerFire ==
    /\ npc = "topics"
    /\ epc = "create" \/ (epc = "select" /\ ~tickReady)
    /\ elapsed >= TimeoutTicks /\ ~toutReady
    /\ toutReady' = TRUE
    /\ UNCHANGED <<addr, dns, npc, nerr, tIdx, epc, answer, tickReady, elapsed>>
    /\ UNCHANGED pubVars
    /\ UNCHANGED <<tlvVars, evVars>>

\* sarama.NewAsyncProducer, the bookkeeping goroutine and the publisher
NewStartProducer(r) ==
    /\ npc = "producer"
    /\ IF r = "error"
       THEN Fail("new producer") /\ UNCHANGED pubVars
       ELSE /\ npc' = "returned" /\ nerr' = ""
            /\ producer' = "running" /\ stopCh' = "open" /\ gpc' = "select"
            /\ stopPc' = "idle"
            /\ UNCHANGED <<broker, input, successes, errors, stops, crash, log>>
    /\ UNCHANGED <<addr, dns, tIdx, epc, answer, tickReady, toutReady, elapsed>>
    /\ UNCHANGED <<tlvVars, evVars>>

StartNext ==
    \/ NewValidate
    \/ \E r \in {"ok", "already connected", "error"} : NewOpenBroker(r)
    \/ \E r \in {"connected", "broker error", "timeout waiting for the connection"} :
         NewWaitBroker(r)
    \/ \E a \in Answers : EnsureCreate(a)
    \/ EnsureSelectTick
    \/ EnsureSelectTimeout
    \/ Tick
    \/ TimerFire
    \/ \E r \in {"ok", "error"} : NewStartProducer(r)

InitStart == StartInit /\ PubIdle /\ TLVIdle /\ EVIdle

SpecStart == InitStart /\ [][StartNext]_vars

\* the validator has run and returned an error / nil
Rejected == npc = "failed" /\ nerr \in ValidatorErrors
Accepted == npc \notin {"validate", "idle"} /\ ~Rejected

\* the port is written as an integer: an optional sign and decimal digits
IsInteger(q) ==
    LET d == IF q # <<>> /\ q[1] \in {"+", "-"} THEN Tail(q) ELSE q IN
    d # <<>> /\ \A k \in 1..Len(d) : d[k] \in DigitSet
IntegerValue(q) ==
    IF q[1] = "-" THEN 0 - DecimalVal(Tail(q))
    ELSE IF q[1] = "+" THEN DecimalVal(Tail(q)) ELSE DecimalVal(q)
PortInRange(q) == IsInteger(q) /\ IntegerValue(q) \in 1..65535

\* the host resolves to at least one IP or is a literal IPv4/IPv6 address
HostKnown(h) == h \in LiteralIPs \/ dns = "ips"

\* C4: the validator accepts an address only if host and port are non-empty,
\* the host resolves or is a literal IP, and the port is an integer in
\* 1..65535; every address whose port is not an integer or lies outside
\* 1..65535 is rejected; "[::1]:9092" is accepted and "localhost:0" rejected;
\* NewKafkaPublisher opens no broker connection for a rejected address.
C4_ValidatorContract ==
    LET sp == SplitHostPort(addr) IN
    /\ Accepted =>
         /\ sp.host # <<>> /\ sp.port # <<>>
         /\ HostKnown(sp.host)
         /\ PortInRange(sp.port)
    /\ (npc # "validate" /\ ~PortInRange(sp.port)) => Rejected
    /\ (npc # "validate" /\ addr = BracketV6 \o <<":", "9", "0", "9", "2">>) => Accepted
    /\ (npc # "validate" /\ addr = Localhost \o <<":", "0">>) => Rejected
    /\ Rejected => broker = "none"

\* one step of ensureTopic or of the loop around it (time passing is not one)
EnsureStep == npc = "topics" /\ (epc' # epc \/ npc' # npc \/ tIdx' # tIdx)
Succeeded ==
    /\ nerr' = ""
    /\ \/ npc' = "topics" /\ tIdx' = tIdx + 1 /\ epc' = "create"
       \/ npc' = "producer" /\ tIdx = 8
Retried == npc' = "topics" /\ tIdx' = tIdx /\ epc' = "create"
FailedWith(e) == npc' = "failed" /\ nerr' = e

\* C5: ensureTopic ends in exactly one of: success when the answer is
\* no-error or topic-already-exists; on request-timed-out a retry at the next
\* tick, repeated until the deadline has passed, after which it fails with a
\* timeout error; immediate failure with that error for any other topic error
\* or a failed create request.  The producer is started only after all eight
\* topics succeeded, and an error is returned otherwise.
C5_ProvisioningOutcomes ==
    /\ [][(EnsureStep /\ epc = "create") =>
            /\ answer' \in {"NoError", "TopicAlreadyExists"} => Succeeded
            /\ answer' = "RequestTimedOut" => (epc' = "select" /\ UNCHANGED <<npc, tIdx>>)
            /\ answer' = "InvalidTopic" => FailedWith("InvalidTopic")
            /\ answer' = "RequestFailed" => FailedWith("create request failed")]_vars
    /\ [][(EnsureStep /\ epc = "select" /\ answer = "RequestTimedOut") =>
            IF toutReady THEN FailedWith("timeout waiting for topic")
            ELSE tickReady /\ Retried]_vars
    /\ [](producer # "none" => tIdx = Len(topicNames) + 1)
    /\ [](npc = "failed" => producer = "none")

\* ------------------------------------------------------------------------
\* pkg/kafka: the publisher returned by NewKafkaPublisher
\* ------------------------------------------------------------------------
\* pkg/bmp: the record types PublishMessage switches on
PeerStateChangeMsg == 1
UnicastPrefixMsg == 2
LSNodeMsg == 3
LSLinkMsg == 4
L3VPNMsg == 5
LSPrefixMsg == 6
LSSRv6SIDMsg == 7
EVPNMsg == 8

peerTopic == "gobmp.parsed.peer"
unicastMessageTopic == "gobmp.parsed.unicast_prefix"
lsNodeMessageTopic == "gobmp.parsed.ls_node"
lsLinkMessageTopic == "gobmp.parsed.ls_link"
l3vpnMessageTopic == "gobmp.parsed.l3vpn"
lsPrefixMessageTopic == "gobmp.parsed.ls_prefix"
lsSRv6SIDMessageTopic == "gobmp.parsed.ls_srv6_sid"
evpnMessageTopic == "gobmp.parsed.evpn"

Keys == {"k1", "k2"}
Bodies == {"m1", "m2"}
Tasks == {"s1", "s2"}

\* a switch with the LSPrefix case sent to the LSLink topic
PublishTopicSlip(t) ==
    CASE t = PeerStateChangeMsg -> peerTopic
      [] t = UnicastPrefixMsg -> unicastMessageTopic
      [] t = LSNodeMsg -> lsNodeMessageTopic
      [] t = LSLinkMsg -> lsLinkMessageTopic
      [] t = L3VPNMsg -> l3vpnMessageTopic
      [] t = LSPrefixMsg -> lsLinkMessageTopic
      [] t = LSSRv6SIDMsg -> lsSRv6SIDMessageTopic
      [] t = EVPNMsg -> evpnMessageTopic
      [] OTHER -> ""

\* the switch of PublishMessage: the topic produceMessage is called with, ""
\* when no case matches
PublishTopic(t) ==
    CASE t = PeerStateChangeMsg -> peerTopic
      [] t = UnicastPrefixMsg -> unicastMessageTopic
      [] t = LSNodeMsg -> lsNodeMessageTopic
      [] t = LSLinkMsg -> lsLinkMessageTopic
      [] t = L3VPNMsg -> l3vpnMessageTopic
      [] t = LSPrefixMsg -> lsPrefixMessageTopic
      [] t = LSSRv6SIDMsg -> lsSRv6SIDMessageTopic
      [] t = EVPNMsg -> evpnMessageTopic
      [] OTHER -> ""

\* &sarama.ProducerMessage{Topic: topic, Key: k, Value: m}
ProducerMessage(topic, key, msg) == [Topic |-> topic, Key |-> key, Value |-> msg]

\* one line of the callers' record of their calls: the arguments, what the
\* call returned and what it put on the producer's input
Call(task, t, key, msg, ret, enq) ==
    [task |-> task, t |-> t, key |-> key, msg |-> msg, ret |-> ret, enq |-> enq]

PubInit ==
    /\ broker = "open" /\ producer = "running" /\ input = <<>>
    /\ successes = 0 /\ errors = 0 /\ stopCh = "open" /\ gpc = "select"
    /\ stopPc = "idle" /\ stops = 0 /\ crash = "" /\ log = <<>>

\* PublishMessage(t, key, msg) called by a session task.  The send on
\* p.producer.Input() waits while the producer takes no message and panics
\* once the producer has closed its input.
PublishMessage(task, t, key, msg) ==
    /\ crash = "" /\ Len(log) < MaxCalls
    /\ LET topic == PublishTopic(t) IN
       IF topic = ""
       THEN /\ log' = Append(log, Call(task, t, key, msg, "not implemented", <<>>))
            /\ UNCHANGED <<input, crash>>
       ELSE IF producer = "closed"
       THEN /\ crash' = "send on closed channel"
            /\ log' = Append(log, Call(task, t, key, msg, "panic", <<>>))
            /\ UNCHANGED input
       ELSE /\ Len(input) < InputCap
            /\ input' = Append(input, ProducerMessage(topic, key, msg))
            /\ log' = Append(log, Call(task, t, key, msg, "nil",
                                       <<ProducerMessage(topic, key, msg)>>))
            /\ UNCHANGED crash
    /\ UNCHANGED <<broker, producer, successes, errors, stopCh, gpc, stopPc, stops>>
    /\ UNCHANGED <<tlvVars, evVars, startVars>>

\* the producer takes the oldest message off its input, delivers it or fails
\* to, and reports on Successes() or Errors()
Dispatch(ok) ==
    /\ crash = "" /\ producer = "running" /\ input # <<>>
    /\ input' = Tail(input)
    /\ IF ok THEN successes < NotifyCap /\ successes' = successes + 1 /\ UNCHANGED errors
       ELSE errors < NotifyCap /\ errors' = errors + 1 /\ UNCHANGED successes
    /\ UNCHANGED <<broker, producer, stopCh, gpc, stopPc, stops, crash, log>>
    /\ UNCHANGED <<tlvVars, evVars, startVars>>

\* bookkeeping goroutine: case <-producer.Successes():
GoSuccess ==
    /\ crash = "" /\ gpc = "select" /\ successes > 0
    /\ successes' = successes - 1
    /\ UNCHANGED <<broker, producer, input, errors, stopCh, gpc, stopPc, stops, crash, log>>
    /\ UNCHANGED <<tlvVars, evVars, startVars>>

\* bookkeeping goroutine: case err := <-producer.Errors(): glog.Errorf(...)
GoError ==
    /\ crash = "" /\ gpc = "select" /\ errors > 0
    /\ errors' = errors - 1
    /\ UNCHANGED <<broker, producer, input, successes, stopCh, gpc, stopPc, stops, crash, log>>
    /\ UNCHANGED <<tlvVars, evVars, startVars>>

\* bookkeeping goroutine: case <-stopCh: it enters producer.Close()
GoStop ==
    /\ crash = "" /\ gpc = "select" /\ stopCh = "closed"
    /\ gpc' = "closing"
    /\ UNCHANGED <<broker, producer, input, successes, errors, stopCh, stopPc, stops, crash, log>>
    /\ UNCHANGED <<tlvVars, evVars, startVars>>

\* producer.Close() returns: the buffered messages are flushed, the
\* producer's channels are closed, and the goroutine returns
GoProducerClosed ==
    /\ crash = "" /\ gpc = "closing"
    /\ input' = <<>> /\ successes' = 0 /\ errors' = 0
    /\ producer' = "closed" /\ gpc' = "done"
    /\ UNCHANGED <<broker, stopCh, stopPc, stops, crash, log>>
    /\ UNCHANGED <<tlvVars, evVars, startVars>>

\* Stop(): close(p.stopCh); closing a closed channel panics
StopCloseCh ==
    /\ crash = "" /\ stopPc = "idle" /\ stops < MaxStops
    /\ IF stopCh = "closed"
       THEN crash' = "close of closed channel" /\ UNCHANGED <<stopCh, stopPc>>
       ELSE stopCh' = "closed" /\ stopPc' = "closeBroker" /\ UNCHANGED crash
    /\ UNCHANGED <<broker, producer, input, successes, errors, gpc, stops, log>>
    /\ UNCHANGED <<tlvVars, evVars, startVars>>

\* Stop(): p.broker.Close(), and Stop returns
StopCloseBroker ==
    /\ crash = "" /\ stopPc = "closeBroker"
    /\ broker' = "closed" /\ stopPc' = "idle" /\ stops' = stops + 1
    /\ UNCHANGED <<producer, input, successes, errors, stopCh, gpc, crash, log>>
    /\ UNCHANGED <<tlvVars, evVars, startVars>>

InitPub == PubInit /\ StartIdle /\ TLVIdle /\ EVIdle

\* a session task publishing on a running publisher
NextPublish ==
    \/ \E t \in 0..9, key \in Keys, msg \in Bodies : PublishMessage("s1", t, key, msg)
    \/ \E ok \in BOOLEAN : Dispatch(ok)
    \/ GoSuccess
    \/ GoError

SpecPublish == InitPub /\ [][NextPublish]_vars

\* session tasks publishing while the publisher is stopped
NextStop ==
    \/ \E task \in Tasks, t \in {0, LSNodeMsg} : PublishMessage(task, t, "k1", "m1")
    \/ \E ok \in BOOLEAN : Dispatch(ok)
    \/ GoSuccess
    \/ GoError
    \/ GoStop
    \/ GoProducerClosed
    \/ StopCloseCh
    \/ StopCloseBroker

SpecStop == InitPub /\ [][NextStop]_vars

ValidTypes ==
    {PeerStateChangeMsg, UnicastPrefixMsg, LSNodeMsg, LSLinkMsg, L3VPNMsg,
     LSPrefixMsg, LSSRv6SIDMsg, EVPNMsg}
TopicSet == {topicNames[i] : i \in 1..Len(topicNames)}

\* C3: on a running publisher PublishMessage(t, key, msg) puts exactly one
\* producer message with the given key and body on the producer's input, on
\* the topic fixed for t, for each of the eight record types; the eight types
\* have eight pairwise distinct topics (two calls use the same topic exactly
\* when they have the same type); for every other t it returns an error and
\* enqueues nothing.
C3_PublishRoutes ==
    /\ [](\A i \in 1..Len(log) :
            IF log[i].t \in ValidTypes
            THEN /\ log[i].ret = "nil"
                 /\ Len(log[i].enq) = 1
                 /\ log[i].enq[1].Key = log[i].key
                 /\ log[i].enq[1].Value = log[i].msg
                 /\ log[i].enq[1].Topic \in TopicSet
                 /\ \A j \in 1..Len(log) :
                      log[j].t \in ValidTypes =>
                        (log[j].enq[1].Topic = log[i].enq[1].Topic <=> log[j].t = log[i].t)
            ELSE log[i].ret = "not implemented" /\ log[i].enq = <<>>)
    /\ [][Len(log') = Len(log) + 1 => input' = input \o log'[Len(log')].enq]_vars

\* a record type and an unknown type have been published: one message is on
\* the producer's input and the second call returned the error
C3_Witness ==
    /\ Len(log) = 2
    /\ log[1].t = LSPrefixMsg /\ log[1].key = "k2" /\ log[1].msg = "m1"
    /\ log[2].t = 9 /\ log[2].ret = "not implemented"
    /\ input = <<ProducerMessage(lsPrefixMessageTopic, "k2", "m1")>>

\* C1: Stop() is idempotent: no Stop() call of a sequence of calls fails or
\* crashes, and after every call the publisher is in the stopped state the
\* first call left it in.
C1_StopIdempotent ==
    /\ crash # "close of closed channel"
    /\ stops >= 1 => (stopCh = "closed" /\ broker = "closed")

\* C2: when Stop() has returned the producer has been closed with its input
\* drained, and the broker connection is closed only after that.
C2_StopDrainsThenCloses ==
    /\ stops >= 1 => (producer = "closed" /\ input = <<>> /\ broker = "closed")
    /\ broker = "closed" => (producer = "closed" /\ input = <<>>)

\* C10: the shared publisher handle is safe for concurrent callers: in every
\* interleaving of PublishMessage calls of several session tasks with each
\* other and with a Stop() call, no PublishMessage sends on a producer input
\* that has been closed, so no call crashes.  (The formula is the safety half
\* of the statement; that every call also returns after a bounded handoff is
\* a liveness property on top of it.)
C10_NoSendOnClosedInput ==
    /\ crash # "send on closed channel"
    /\ \A i \in 1..Len(log) : log[i].ret # "panic"

\* ------------------------------------------------------------------------
\* Specifications of the two decoders
\* ------------------------------------------------------------------------
InitTLV == TLVInit /\ EVIdle /\ StartIdle /\ PubIdle

NextTLV == TLVUnmarshal

SpecTLV == InitTLV /\ [][NextTLV]_vars

InitEVPN == EVInit /\ TLVIdle /\ StartIdle /\ PubIdle

NextEVPN == EVUnmarshal

SpecEVPN == InitEVPN /\ [][NextEVPN]_vars

====
